---- MODULE Spec2Model ----
(***************************************************************************)
(* A model of the mongolite.js / buryat.js document store: the Collection  *)
(* (master, _id), the query engine (detect_clause_type, the three          *)
(* matching_rows_* matchers, do_query), the result cursor (db_result) and  *)
(* the mutating operations insert, update and remove.                      *)
(*                                                                         *)
(* JavaScript values are records [t |-> <type_of>, v |-> <payload>].       *)
(*   number   v is the integer                                             *)
(*   boolean  v is 1 (true) or 0 (false)                                   *)
(*   string   v is the rank of the string in code-unit order: 0 is the     *)
(*            empty string, 1, 2, ... are capitalised names ("Amy" <       *)
(*            "Bob" < ...), none of which reads as a number                *)
(*   date     v is the time value                                          *)
(*   regexp   v is 1 for the match-all pattern of the tests and 2 for     *)
(*            their capital-letter pattern                                 *)
(*   object   query side: v is the sequence of [key, value] entries in     *)
(*            insertion order; document side: v is the document            *)
(*   array    v is the sequence of elements                                *)
(* A stored document is a function from its own keys to scalar values. A   *)
(* row handed around by the query engine is a reference [ref, doc]: ref    *)
(* is the position in master of the object, 0 for an object that is not    *)
(* in master.                                                              *)
(***************************************************************************)
EXTENDS Integers, Sequences, FiniteSets, TLC

VARIABLES
    impl,      \* "mongolite" (src/mongolite.js) or "buryat" (src/unnamed/part_000)
    master,    \* the Collection: a sequence of documents
    _id,       \* the id counter
    cursor,    \* the db_result of the last find, with what was done to it
    assigned,  \* history: every value ++_id produced, in order
    removed,   \* history: the _id values of the documents remove deleted
    last,      \* history: the last call, its arguments and what it returned
    disk,      \* the file at db_path: whether it exists and what it holds
    sibling    \* a store of the sibling implementation given the same calls

vars == <<impl, master, _id, cursor, assigned, removed, last, disk, sibling>>

---------------------------------------------------------------------------
(* Bounds of the model.                                                    *)

MaxDocs == 3
MaxId == 4
MaxOps == 2

---------------------------------------------------------------------------
(* JavaScript values.                                                      *)

Num(n) == [t |-> "number", v |-> n]
Str(k) == [t |-> "string", v |-> k]
Bool(b) == [t |-> "boolean", v |-> IF b THEN 1 ELSE 0]
Regexp(k) == [t |-> "regexp", v |-> k]
Obj(entries) == [t |-> "object", v |-> entries]
Arr(elems) == [t |-> "array", v |-> elems]
Undefined == [t |-> "undefined", v |-> 0]
Null == [t |-> "null", v |-> 0]
NoKey == ""
EmptyDoc == [k \in {} |-> Undefined]

type_of(x) == IF x.t = "null" THEN "object" ELSE x.t

\* row[key]: the value of an own key, undefined when the key is absent
Get(doc, key) == IF key \in DOMAIN doc THEN doc[key] ELSE Undefined

\* obj[key] = value on a document
Put(doc, key, value) == [k \in DOMAIN doc \cup {key} |-> IF k = key THEN value ELSE doc[k]]

\* ToBoolean
Truthy(x) ==
    CASE x.t = "undefined" -> FALSE
      [] x.t = "null" -> FALSE
      [] x.t = "boolean" -> x.v = 1
      [] x.t = "number" -> x.v # 0
      [] x.t = "string" -> x.v # 0
      [] OTHER -> TRUE

\* x === y: scalars by type and value, objects (dates, regexps, documents)
\* by identity, and the two operands here are never the same object
StrictEq(x, y) ==
    /\ x.t = y.t
    /\ x.t \in {"number", "string", "boolean", "undefined", "null"}
    /\ x.v = y.v

\* ToNumber: [nan, n]
ToNumber(x) ==
    CASE x.t = "number" -> [nan |-> FALSE, n |-> x.v]
      [] x.t = "boolean" -> [nan |-> FALSE, n |-> x.v]
      [] x.t = "date" -> [nan |-> FALSE, n |-> x.v]
      [] x.t = "null" -> [nan |-> FALSE, n |-> 0]
      [] x.t = "string" /\ x.v = 0 -> [nan |-> FALSE, n |-> 0]
      [] OTHER -> [nan |-> TRUE, n |-> 0]

\* x < y and x <= y: two strings by code units, anything else as numbers
Lt(x, y) ==
    IF x.t = "string" /\ y.t = "string" THEN x.v < y.v
    ELSE /\ ~ToNumber(x).nan
         /\ ~ToNumber(y).nan
         /\ ToNumber(x).n < ToNumber(y).n

Le(x, y) ==
    IF x.t = "string" /\ y.t = "string" THEN x.v <= y.v
    ELSE /\ ~ToNumber(x).nan
         /\ ~ToNumber(y).nan
         /\ ToNumber(x).n <= ToNumber(y).n

\* x + '': the string form; the decimal form of a number is no string of
\* the table and is kept apart as "numstr"
ToStr(x) ==
    CASE x.t = "string" -> x
      [] x.t = "number" -> [t |-> "numstr", v |-> x.v]
      [] OTHER -> [t |-> "word", v |-> x.v]

\* sval.match(re): pattern 1 matches every string, pattern 2 those holding
\* a capital letter, which are the names of the table
RegexpTest(sval, re) ==
    CASE re.v = 1 -> TRUE
      [] re.v = 2 -> sval.t = "string" /\ sval.v >= 1
      [] OTHER -> FALSE

---------------------------------------------------------------------------
(* Query-side objects: ordered [key, value] entries.                       *)

_firstKey(O) ==
    IF O.t = "object" /\ Len(O.v) > 0 THEN O.v[1].key ELSE NoKey

ObjHas(O, key) == \E i \in 1..Len(O.v) : O.v[i].key = key

ObjGet(O, key) ==
    IF O.t = "object" /\ ObjHas(O, key)
    THEN O.v[CHOOSE i \in 1..Len(O.v) : O.v[i].key = key].value
    ELSE Undefined

\* delete O[key]
ObjDelete(O, key) == Obj(SelectSeq(O.v, LAMBDA e : e.key # key))

\* keys holding a '.' path separator
HasDot(key) == key \in {"a.b"}

CondOps == {"$gt", "$gte", "$lt", "$lte", "$exists"}

detect_clause_type(key, value) ==
    CASE type_of(value) \in {"boolean", "date", "number", "string", "regexp"} ->
            IF ~HasDot(key) THEN "CLAUSE_NORMAL" ELSE "CLAUSE_SUBDOCUMENT_MATCH"
      [] type_of(value) = "object" ->
            IF _firstKey(value) \in CondOps THEN "CLAUSE_CONDITIONAL"
            ELSE "CLAUSE_SUBDOCUMENT"
      [] type_of(value) = "array" ->
            IF key = "$or" THEN "CLAUSE_OR" ELSE "CLAUSE_ARRAY"
      [] OTHER -> "CLAUSE_UNKNOWN"

---------------------------------------------------------------------------
(* The matchers. rows is a sequence of references [ref, doc].              *)

matching_rows_NORMAL(test, rows) ==
    SelectSeq(rows, LAMBDA row :
        /\ test.key \in DOMAIN row.doc
        /\ IF type_of(test.value) = "regexp"
           THEN RegexpTest(ToStr(row.doc[test.key]), test.value)
           ELSE StrictEq(row.doc[test.key], test.value))

\* $exists read as the presence of the key
CondRow_present(key, cond, operand, doc) ==
    IF cond = "$exists"
    THEN IF Truthy(operand) THEN key \in DOMAIN doc ELSE key \notin DOMAIN doc
    ELSE /\ key \in DOMAIN doc
         /\ CASE cond = "$lt" -> Lt(doc[key], operand)
              [] cond = "$lte" -> Le(doc[key], operand)
              [] cond = "$gt" -> Lt(operand, doc[key])
              [] cond = "$gte" -> Le(operand, doc[key])
              [] OTHER -> FALSE

\* one row against one operator of a CONDITIONAL clause
CondRow(key, cond, operand, doc) ==
    IF cond = "$exists"
    THEN IF Truthy(operand) THEN Truthy(Get(doc, key)) ELSE ~Truthy(Get(doc, key))
    ELSE /\ key \in DOMAIN doc
         /\ CASE cond = "$lt" -> Lt(doc[key], operand)
              [] cond = "$lte" -> Le(doc[key], operand)
              [] cond = "$gt" -> Lt(operand, doc[key])
              [] cond = "$gte" -> Le(operand, doc[key])
              [] OTHER -> FALSE

Reversed(s) == [i \in 1..Len(s) |-> s[Len(s) + 1 - i]]

\* a matcher that pushes the matching rows last to first
matching_rows_CONDITIONAL_reversed(test, rows) ==
    [res |-> Reversed(SelectSeq(rows, LAMBDA row :
                CondRow(test.key, _firstKey(test.value),
                        ObjGet(test.value, _firstKey(test.value)), row.doc))),
     value |-> IF _firstKey(test.value) # NoKey
               THEN ObjDelete(test.value, _firstKey(test.value)) ELSE test.value]

\* returns the matching rows and test.value with its first operator deleted
matching_rows_CONDITIONAL(test, rows) ==
    LET cond == _firstKey(test.value)
    IN  [res |-> SelectSeq(rows, LAMBDA row :
                    CondRow(test.key, cond, ObjGet(test.value, cond), row.doc)),
         value |-> IF cond # NoKey THEN ObjDelete(test.value, cond) ELSE test.value]

\* one row against the sub-clause array[j] of an $or: "match", "next" (try
\* the following sub-clause) or "fault" (a TypeError is thrown)
OrElt(elt, doc) ==
    LET eltkey == _firstKey(elt)
        eltval == ObjGet(elt, eltkey)
        clausetype == detect_clause_type(eltkey, eltval)
        rowval == Get(doc, eltkey)
    IN  CASE clausetype = "CLAUSE_NORMAL" ->
                IF type_of(eltval) = "regexp"
                THEN IF rowval.t # "string" THEN "fault"
                     ELSE IF RegexpTest(rowval, eltval) THEN "match" ELSE "next"
                ELSE IF StrictEq(rowval, eltval) THEN "match" ELSE "next"
          [] clausetype = "CLAUSE_CONDITIONAL" ->
                LET op == _firstKey(eltval)
                    operand == ObjGet(eltval, op)
                IN  CASE op = "$gt" -> IF Lt(operand, rowval) THEN "match" ELSE "next"
                      [] op = "$gte" -> IF Le(operand, rowval) THEN "match" ELSE "next"
                      [] op = "$lt" -> IF Lt(rowval, operand) THEN "match" ELSE "next"
                      [] op = "$lte" -> IF Le(rowval, operand) THEN "match" ELSE "next"
                      [] op = "$exists" ->
                            IF rowval.t # "undefined" /\ Truthy(operand) THEN "match"
                            ELSE IF rowval.t = "undefined" /\ ~Truthy(operand) THEN "match"
                            ELSE "next"
                      [] OTHER -> "next"
          [] OTHER -> "next"

RECURSIVE OrRow(_, _, _)
OrRow(array, doc, j) ==
    IF j > Len(array.v) THEN "next"
    ELSE LET r == OrElt(array.v[j], doc)
         IN  IF r = "next" THEN OrRow(array, doc, j + 1) ELSE r

\* returns the matching rows, or a fault when a row before the end throws
matching_rows_OR(array, rows) ==
    [res |-> SelectSeq(rows, LAMBDA row : OrRow(array, row.doc, 1) = "match"),
     fault |-> \E i \in 1..Len(rows) : OrRow(array, rows[i].doc, 1) = "fault"]

---------------------------------------------------------------------------
(* do_query.                                                               *)

\* the references to the documents of the Collection, in order
Refs(m) == [i \in 1..Len(m) |-> [ref |-> i, doc |-> m[i]]]

\* the index keys "0", "1", ... of an array or a string
IndexKey(i) == CASE i = 1 -> "0" [] i = 2 -> "1" [] i = 3 -> "2" [] OTHER -> "3"

\* for ( clause in clauses ) with hasOwnProperty: the own entries of a value.
\* A number or a boolean has none, an array has its elements under their
\* index keys, a non-empty string its characters (one is kept: no document
\* has a key "0", so the first NORMAL clause already empties the result)
OwnEntries(x) ==
    CASE x.t = "object" -> x.v
      [] x.t = "array" -> [i \in 1..Len(x.v) |-> [key |-> IndexKey(i), value |-> x.v[i]]]
      [] x.t = "string" /\ x.v # 0 -> <<[key |-> IndexKey(1), value |-> [t |-> "string", v |-> -1]]>>
      [] OTHER -> <<>>

\* clauses[clause] = value, after the matcher deleted operators from it
SetEntry(x, i, value) ==
    CASE x.t = "object" -> [x EXCEPT !.v[i].value = value]
      [] x.t = "array" -> [x EXCEPT !.v[i] = value]
      [] OTHER -> x

\* an if in the place of the while: one pass, whatever the value holds
CondLoop_once(key, value, result, passes) ==
    IF _firstKey(value) = NoKey
    THEN [res |-> result, value |-> value, passes |-> passes]
    ELSE [res |-> matching_rows_CONDITIONAL([key |-> key, value |-> value], result).res,
          value |-> matching_rows_CONDITIONAL([key |-> key, value |-> value], result).value,
          passes |-> passes + 1]

\* while ( _firstKey(clauses[clause]) !== null ) result = matching_rows_CONDITIONAL(..)
RECURSIVE CondLoop(_, _, _, _)
CondLoop(key, value, result, passes) ==
    IF _firstKey(value) = NoKey
    THEN [res |-> result, value |-> value, passes |-> passes]
    ELSE LET m == matching_rows_CONDITIONAL([key |-> key, value |-> value], result)
         IN  CondLoop(key, m.value, m.res, passes + 1)

\* one turn of the loop over the clauses: the switch on the clause type
CondStep(clauses, i, c) ==
    [rows |-> c.res, clauses |-> SetEntry(clauses, i, c.value), fault |-> FALSE]

OrStep(clauses, o) ==
    [rows |-> IF o.fault THEN <<>> ELSE o.res, clauses |-> clauses, fault |-> o.fault]

QueryStep(clauses, clause, value, i, result) ==
    CASE detect_clause_type(clause, value) = "CLAUSE_NORMAL" ->
            [rows |-> matching_rows_NORMAL([key |-> clause, value |-> value], result),
             clauses |-> clauses, fault |-> FALSE]
      [] detect_clause_type(clause, value) = "CLAUSE_CONDITIONAL" ->
            CondStep(clauses, i, CondLoop(clause, value, result, 0))
      [] detect_clause_type(clause, value) = "CLAUSE_OR" ->
            OrStep(clauses, matching_rows_OR(value, result))
      [] OTHER -> [rows |-> result, clauses |-> clauses, fault |-> FALSE]

\* for ( clause in clauses ), from clause i on; a TypeError ends it
RECURSIVE QueryLoop(_, _)
QueryLoop(s, i) ==
    IF s.fault \/ i > Len(OwnEntries(s.clauses)) THEN s
    ELSE QueryLoop(QueryStep(s.clauses, OwnEntries(s.clauses)[i].key,
                             OwnEntries(s.clauses)[i].value, i, s.rows), i + 1)

\* returns the rows (references into m), the query object as the matchers
\* left it, and whether a TypeError was thrown
do_query(m, clauses) ==
    IF ~Truthy(clauses) \/ (type_of(clauses) = "object" /\ _firstKey(clauses) = NoKey)
    THEN [rows |-> Refs(m), clauses |-> clauses, fault |-> FALSE]
    ELSE QueryLoop([rows |-> Refs(m), clauses |-> clauses, fault |-> FALSE], 1)

---------------------------------------------------------------------------
(* db_result: the cursor.                                                  *)

\* JSON.parse(JSON.stringify(x)) of one value: a Date comes back as its ISO
\* string, whose rank among the strings is its time value
JSONValue(x) ==
    CASE x.t = "date" -> Str(x.v)
      [] OTHER -> x

\* JSON.parse(JSON.stringify(O)): keys holding undefined are dropped
JSONClone(doc) ==
    [k \in {f \in DOMAIN doc : doc[f].t # "undefined"} |-> JSONValue(doc[k])]

\* the clone is a new object, in no Collection
push_noclone(_data, O) == Append(_data, O)

push(_data, O) == Append(_data, [ref |-> 0, doc |-> JSONClone(O.doc)])

RECURSIVE PushAll(_, _, _)
PushAll(_data, arg, i) ==
    IF i > Len(arg) THEN _data ELSE PushAll(push(_data, arg[i]), arg, i + 1)

db_result(arg) == PushAll(<<>>, arg, 1)

\* a comparator that puts a document without the key last when ascending
sortcmp_absent_last(a, b, key, val) ==
    IF ~Truthy(Get(a, key)) THEN val
    ELSE IF ~Truthy(Get(b, key)) THEN -val
    ELSE IF a[key].t = "string" /\ b[key].t = "string"
         THEN (IF a[key].v < b[key].v THEN -1 ELSE IF a[key].v > b[key].v THEN 1 ELSE 0) * val
         ELSE IF Lt(b[key], a[key]) THEN val ELSE -val

\* the comparator handed to Array.prototype.sort
sortcmp(a, b, key, val) ==
    IF ~Truthy(Get(a, key)) THEN -val
    ELSE IF ~Truthy(Get(b, key)) THEN val
    ELSE IF a[key].t = "string" /\ b[key].t = "string"
         THEN (IF a[key].v < b[key].v THEN -1 ELSE IF a[key].v > b[key].v THEN 1 ELSE 0) * val
         ELSE IF Lt(b[key], a[key]) THEN val ELSE -val

Perms(n) == {f \in [1..n -> 1..n] : \A i, j \in 1..n : i # j => f[i] # f[j]}

\* Array.prototype.sort: a permutation that puts a before b wherever the
\* comparator says so both ways round (cmp(a,b) < 0 and cmp(b,a) > 0). Where
\* it does not (two documents without the key, two equal values) the order
\* is the implementation's choice: every order is a possible result.
ArraySort(_data, key, val) ==
    {[i \in 1..Len(_data) |-> _data[f[i]]] : f \in
        {g \in Perms(Len(_data)) : \A i, j \in 1..Len(_data) :
            i < j => ~(/\ sortcmp(_data[g[j]].doc, _data[g[i]].doc, key, val) < 0
                       /\ sortcmp(_data[g[i]].doc, _data[g[j]].doc, key, val) > 0)}}

\* the possible results of sort( O ): key = _firstKey(O), val = O[key]
sort(_data, O) == ArraySort(_data, _firstKey(O), ObjGet(O, _firstKey(O)).v)

Min(a, b) == IF a < b THEN a ELSE b
Max(a, b) == IF a > b THEN a ELSE b

\* Array.prototype.splice(start, deleteCount), both numbers [nan, n]: what
\* is left of the array
Splice(arr, start, deleteCount) ==
    LET len == Len(arr)
        relStart == IF start.nan THEN 0 ELSE start.n
        actualStart == IF relStart < 0 THEN Max(len + relStart, 0) ELSE Min(relStart, len)
        dc == IF deleteCount.nan THEN 0 ELSE deleteCount.n
        actualDC == Min(Max(dc, 0), len - actualStart)
    IN  SubSeq(arr, 1, actualStart) \o SubSeq(arr, actualStart + actualDC + 1, len)

\* Number(x), which is ToNumber
Number(x) == ToNumber(x)

\* a splice that starts one element late
limit_one_more(_data, _l) ==
    Splice(_data, [nan |-> Number(_l).nan, n |-> Number(_l).n + 1],
           [nan |-> Number(_l).nan, n |-> Len(_data) - Number(_l).n - 1])

\* type_of(lim) is "number" for every Number(..), NaN included
limit(_data, _l) ==
    LET lim == Number(_l)
    IN  Splice(_data, lim,
               [nan |-> lim.nan, n |-> Len(_data) - lim.n])

skip(im, _data, s) ==
    IF im = "mongolite"
    THEN Splice(_data, [nan |-> FALSE, n |-> 0], Number(s))
    ELSE _data

\* the cursor's count()
db_result_count(_data) == Len(_data)

---------------------------------------------------------------------------
(* insert, update, remove. A store is st = [master, _id]; every operation  *)
(* returns the store it leaves, its return value, the ids it drew from the *)
(* counter and whether it threw.                                           *)

DocObj(d) == [t |-> "object", v |-> d]

\* newObj[_key] = _value first, then every own key of obj is copied over it
addToFront(obj, _key, _value) ==
    IF DOMAIN obj = {} THEN obj
    ELSE [k \in DOMAIN obj \cup {_key} |-> IF k \in DOMAIN obj THEN obj[k] ELSE _value]

Result(m, id, ret, drawn, fault) ==
    [master |-> m, _id |-> id, ret |-> ret, drawn |-> drawn, fault |-> fault]

\* master.push(obj); return obj["_id"]
PushOne(st, stored, id, drawn) ==
    Result(Append(st.master, stored), id, Get(stored, "_id"), drawn, FALSE)

insert_one(im, st, obj) ==
    IF type_of(obj) # "object" THEN Result(st.master, st._id, Num(-1), <<>>, FALSE)
    ELSE IF obj.t = "null" THEN Result(st.master, st._id, Undefined, <<>>, TRUE)
    ELSE IF ~Truthy(Get(obj.v, "_id"))
    THEN PushOne(st, IF im = "mongolite"
                     THEN addToFront(obj.v, "_id", Num(st._id + 1))
                     ELSE Put(obj.v, "_id", Num(st._id + 1)),
                 st._id + 1, <<st._id + 1>>)
    ELSE PushOne(st, obj.v, st._id, <<>>)

\* for ( i = 0; i < Arg.length; i++ ) id_set = insert_one( Arg[i] )
Drawn(r, one) == [one EXCEPT !.drawn = r.drawn \o one.drawn]

RECURSIVE InsertLoop(_, _, _, _)
InsertLoop(im, r, Arg, i) ==
    IF i > Len(Arg.v) \/ r.fault THEN r
    ELSE InsertLoop(im, Drawn(r, insert_one(im, r, Arg.v[i])), Arg, i + 1)

insert(im, st, Arg) ==
    IF type_of(Arg) = "array"
    THEN InsertLoop(im, Result(st.master, st._id, Num(-1), <<>>, FALSE), Arg, 1)
    ELSE insert_one(im, st, Arg)

\* the own keys of $set that the row loop walks: those of a document (a
\* number or a boolean has none)
SetDoc(set) == IF set.t = "object" THEN set.v ELSE EmptyDoc

\* if ( row[key] !== value ): a falsy value is not written again
SetChanges_strict(row, key, value) == ~StrictEq(Get(row, key), value)

\* if ( !row[key] || row[key] !== value ) for one key of $set
SetChanges(row, key, value) == ~Truthy(Get(row, key)) \/ ~StrictEq(Get(row, key), value)

\* a row replaced by $set instead of written key by key
SetRow_replaced(row, set) == set

\* a row after the loop over the keys of $set
SetRow(row, set) ==
    [k \in DOMAIN row \cup DOMAIN set |->
        IF k \in DOMAIN set /\ SetChanges(row, k, set[k]) THEN set[k] ELSE row[k]]

\* a loop without the break
Visited_all(res, do_multi) == {res[i].ref : i \in 1..Len(res)}

\* the rows the loop reaches: all of them with multi, else the first
Visited(res, do_multi) ==
    IF do_multi THEN {res[i].ref : i \in 1..Len(res)}
    ELSE {res[i].ref : i \in 1..(IF Len(res) = 0 THEN 0 ELSE 1)}

\* did_change
Altered(m, visited, set) ==
    {r \in visited : \E k \in DOMAIN set : SetChanges(m[r], k, set[k])}

\* the loop over the rows of the matching result
UpdateRows(st, visited, set) ==
    Result([r \in 1..Len(st.master) |->
                IF r \in visited THEN SetRow(st.master[r], set) ELSE st.master[r]],
           st._id, Num(Cardinality(Altered(st.master, visited, set))), <<>>, FALSE)

\* this.insert( set ); return 1
Upsert(ins) == [ins EXCEPT !.ret = Num(1)]

\* update, from do_query on
UpdateWith(im, st, set, q, do_multi, do_upsert) ==
    IF q.fault THEN Result(st.master, st._id, Num(0), <<>>, TRUE)
    ELSE IF Len(q.rows) = 0 /\ do_upsert THEN Upsert(insert(im, st, set))
    ELSE UpdateRows(st, Visited(q.rows, do_multi), SetDoc(set))

\* args is the sequence of the arguments passed: arguments.length = Len(args)
update(im, st, args) ==
    IF Len(args) < 2 THEN Result(st.master, st._id, Num(0), <<>>, FALSE)
    ELSE IF type_of(args[1]) # "object" \/ type_of(args[2]) # "object"
    THEN Result(st.master, st._id, Num(0), <<>>, FALSE)
    ELSE IF Len(args) = 3 /\ type_of(args[3]) # "object"
    THEN Result(st.master, st._id, Num(0), <<>>, FALSE)
    ELSE IF args[2].t = "null" THEN Result(st.master, st._id, Num(0), <<>>, TRUE)
    ELSE IF ~Truthy(ObjGet(args[2], "$set"))
    THEN Result(st.master, st._id, Num(0), <<>>, FALSE)
    ELSE IF Len(args) = 3 /\ args[3].t = "null"
    THEN Result(st.master, st._id, Num(0), <<>>, TRUE)
    ELSE UpdateWith(im, st, ObjGet(args[2], "$set"), do_query(st.master, args[1]),
                    Len(args) = 3 /\ Truthy(ObjGet(args[3], "multi")),
                    Len(args) = 3 /\ Truthy(ObjGet(args[3], "upsert")))

\* the _id of every row that has one
RmIds(rows) ==
    {rows[i].doc["_id"] : i \in {j \in 1..Len(rows) : Truthy(Get(rows[j].doc, "_id"))}}

\* the filter callback's test: row['_id'] && row['_id'] === rmids[i]
Hit(row, rmids) ==
    /\ Truthy(Get(row, "_id"))
    /\ \E id \in rmids : StrictEq(row["_id"], id)

Removal(m, id, ret, gone, fault) ==
    [master |-> m, _id |-> id, ret |-> ret, gone |-> gone, fault |-> fault]

RemoveIds(st, rmids, new_master) ==
    Removal(new_master, st._id, Num(Len(st.master) - Len(new_master)),
            {st.master[i]["_id"] : i \in {j \in 1..Len(st.master) : Hit(st.master[j], rmids)}},
            FALSE)

RemoveRows(st, q, rmids) ==
    IF q.fault THEN Removal(st.master, st._id, Num(0), {}, TRUE)
    ELSE IF Len(q.rows) = 0 \/ rmids = {} THEN Removal(st.master, st._id, Num(0), {}, FALSE)
    ELSE RemoveIds(st, rmids, SelectSeq(st.master, LAMBDA row : ~Hit(row, rmids)))

RemoveQuery(st, q) == RemoveRows(st, q, RmIds(q.rows))

\* args holds the constraints, or nothing: arguments.length = Len(args)
remove(st, args) ==
    IF Len(args) = 1 /\ type_of(args[1]) # "object"
    THEN Removal(st.master, st._id, Num(0), {}, FALSE)
    ELSE RemoveQuery(st, do_query(st.master, IF Len(args) = 0 THEN Obj(<<>>) ELSE args[1]))

\* find( match ): the cursor's _data, whether do_query threw, the query
\* object as it is left, and which documents of master were matched
Found(q) ==
    [data |-> db_result(q.rows), fault |-> q.fault, query |-> q.clauses,
     refs |-> [i \in 1..Len(q.rows) |-> q.rows[i].ref]]

find(m, match) == Found(do_query(m, match))

count(m) == Len(m)

---------------------------------------------------------------------------
(* The inputs the calls are drawn from.                                    *)

D(a, b) == ("a" :> a) @@ ("b" :> b)
Da(a) == ("a" :> a)
Db(b) == ("b" :> b)
Q1(key, value) == Obj(<<[key |-> key, value |-> value]>>)
Q2(k1, v1, k2, v2) == Obj(<<[key |-> k1, value |-> v1], [key |-> k2, value |-> v2]>>)

\* what insert is called with: documents with fields, a falsy field, the
\* empty document, a document carrying its own _id, and a non-document
InsertArgs ==
    << DocObj(Da(Num(1))),
       DocObj(D(Num(0), Num(2))),
       DocObj(EmptyDoc),
       DocObj(("_id" :> Num(2)) @@ Da(Num(1))),
       Num(5) >>

\* the queries, $set objects and options of update and remove
MutQueries ==
    << Q1("a", Num(1)),
       Q1("b", Q1("$exists", Bool(TRUE))),
       Q1("a", Num(3)) >>

SetObjs ==
    << DocObj(Db(Num(2))) >>

\* none passed, {multi:true}, {upsert:true}
Options ==
    << <<>>,
       <<Q1("multi", Bool(TRUE))>>,
       <<Q1("upsert", Bool(TRUE))>> >>

\* the cursor: whether find returned one, its _data, and as history the
\* query it came from, the _data and the matched positions find gave it,
\* the calls made on it since, and the query object as find left it
NoCursor ==
    [open |-> FALSE, data |-> <<>>, q |-> Null, found |-> <<>>, rows |-> <<>>,
     hist |-> <<>>, left |-> Null]

\* no file at db_path; saved is history: the Collection that was written
NoDisk == [exists |-> FALSE, text |-> <<>>, saved |-> <<>>]

\* the sibling's store: its Collection and id counter, the _data of its
\* cursor, and what its last call returned
Sibling(m, id, data, ret, fault) ==
    [master |-> m, _id |-> id, data |-> data, ret |-> ret, fault |-> fault]

NoSibling == Sibling(<<>>, 0, <<>>, Undefined, FALSE)

Call(op, args, ret, fault) == [op |-> op, args |-> args, ret |-> ret, fault |-> fault]

---------------------------------------------------------------------------
(* The store: open, insert, update, remove.                                *)

Init ==
    /\ impl \in {"mongolite", "buryat"}
    /\ master = <<>>
    /\ _id = 0
    /\ cursor = NoCursor
    /\ assigned = <<>>
    /\ removed = {}
    /\ last = Call("open", <<>>, Undefined, FALSE)
    /\ disk = NoDisk
    /\ sibling = NoSibling

\* what a call of insert or update leaves
Commit(op, args, r) ==
    /\ Len(r.master) <= MaxDocs
    /\ r._id <= MaxId
    /\ master' = r.master
    /\ _id' = r._id
    /\ assigned' = assigned \o r.drawn
    /\ last' = Call(op, args, r.ret, r.fault)
    /\ UNCHANGED <<impl, cursor, removed, disk, sibling>>

\* what a call of remove leaves
CommitRemove(args, r) ==
    /\ master' = r.master
    /\ removed' = removed \cup r.gone
    /\ last' = Call("remove", args, r.ret, r.fault)
    /\ UNCHANGED <<impl, _id, cursor, assigned, disk, sibling>>

Store == [master |-> master, _id |-> _id]

\* insert( Arg )
InsertOf(Args) ==
    \E i \in 1..Len(Args) :
        Commit("insert", <<Args[i]>>, insert(impl, Store, Args[i]))

\* update( query, {$set: set} ) and update( query, {$set: set}, options )
UpdateArgs(query, set, opts) == <<query, Q1("$set", set)>> \o opts

UpdateOf(Queries, Sets, Opts) ==
    \E i \in 1..Len(Queries), j \in 1..Len(Sets), k \in 1..Len(Opts) :
        Commit("update", UpdateArgs(Queries[i], Sets[j], Opts[k]),
               update(impl, Store, UpdateArgs(Queries[i], Sets[j], Opts[k])))

\* remove() and remove( constraints )
RemoveArgs(Queries, i) == IF i = 0 THEN <<>> ELSE <<Queries[i]>>

RemoveOf(Queries) ==
    \E i \in 0..Len(Queries) :
        CommitRemove(RemoveArgs(Queries, i), remove(Store, RemoveArgs(Queries, i)))

Insert == InsertOf(InsertArgs)
Update == UpdateOf(MutQueries, SetObjs, Options)
Remove == RemoveOf(MutQueries)

Next == Insert \/ Update \/ Remove

Spec == Init /\ [][Next]_vars

---------------------------------------------------------------------------
(* save and the load that opening a store on db_path performs.  The file   *)
(* holds JSON.stringify(master); it is modelled by the value JSON.parse    *)
(* reads back from it.                                                     *)

\* JSON.parse( JSON.stringify( master ) )
stringify(m) == [i \in DOMAIN m |-> JSONClone(m[i])]

save(m) == [exists |-> TRUE, text |-> stringify(m), saved |-> m]

\* the forEach that looks for the highest _id
RECURSIVE highest_id(_, _, _)
highest_id(m, i, highest) ==
    IF i > Len(m) THEN highest
    ELSE highest_id(m, i + 1,
                    IF Truthy(Get(m[i], "_id")) /\ Lt(highest, Get(m[i], "_id"))
                    THEN Get(m[i], "_id") ELSE highest)

any_missing(m) == \E i \in DOMAIN m : ~Truthy(Get(m[i], "_id"))

\* a row without a truthy _id is given ++highest
backfill_one(im, row, id) ==
    IF im = "mongolite" THEN addToFront(row, "_id", Num(id)) ELSE Put(row, "_id", Num(id))

RECURSIVE backfill(_, _, _, _)
backfill(im, r, i, highest) ==
    IF i > Len(r.master) THEN [r EXCEPT !._id = highest]
    ELSE IF Truthy(Get(r.master[i], "_id")) THEN backfill(im, r, i + 1, highest)
    ELSE backfill(im,
                  [r EXCEPT !.master[i] = backfill_one(im, r.master[i], highest + 1),
                            !.drawn = Append(r.drawn, highest + 1)],
                  i + 1, highest + 1)

\* finish_db_setup of mongolite, the body of the existsSync branch of buryat
finish_db_setup(im, m) ==
    IF im = "mongolite" /\ Len(m) = 0 THEN Result(m, 0, Undefined, <<>>, FALSE)
    ELSE IF any_missing(m)
    THEN backfill(im, Result(m, 0, Undefined, <<>>, FALSE), 1,
                  ToNumber(highest_id(m, 1, Num(0))).n)
    ELSE Result(m, ToNumber(highest_id(m, 1, Num(0))).n, Undefined, <<>>, FALSE)

\* a new store opened on db_path
load(im, file) ==
    IF file.exists THEN finish_db_setup(im, file.text)
    ELSE Result(<<>>, 0, Undefined, <<>>, FALSE)

\* save()
Save ==
    /\ disk' = save(master)
    /\ last' = Call("save", <<>>, Undefined, FALSE)
    /\ UNCHANGED <<impl, master, _id, cursor, assigned, removed, sibling>>

\* the process ends and a new store is opened on the same db_path
Reopen(r) ==
    /\ r._id <= MaxId
    /\ Len(assigned) + Len(r.drawn) <= MaxId
    /\ master' = r.master
    /\ _id' = r._id
    /\ assigned' = assigned \o r.drawn
    /\ cursor' = NoCursor
    /\ last' = Call("load", <<>>, Undefined, FALSE)
    /\ UNCHANGED <<impl, removed, disk, sibling>>

Load == Reopen(load(impl, disk))

---------------------------------------------------------------------------
(* Collections to start from: every sequence of at most MaxDocs different  *)
(* documents of a table, inserted one by one into a new store.             *)

Loaded(im, docs) == insert(im, [master |-> <<>>, _id |-> 0], Arr(docs))

Picks(T) ==
    UNION {{f \in [1..k -> 1..Len(T)] : \A i, j \in 1..k : i < j => f[i] # f[j]} :
            k \in 0..MaxDocs}

Docs(T, f) == [i \in DOMAIN f |-> DocObj(T[f[i]])]

InitStore(st) ==
    /\ master = st.master
    /\ _id = st._id
    /\ assigned = st.drawn
    /\ cursor = NoCursor
    /\ removed = {}
    /\ last = Call("open", <<>>, Undefined, FALSE)
    /\ disk = NoDisk
    /\ sibling = NoSibling

InitWith(T) ==
    /\ impl \in {"mongolite", "buryat"}
    /\ \E f \in Picks(T) : InitStore(Loaded(impl, Docs(T, f)))

\* a Collection with a date in it, saved and opened again
Date(n) == [t |-> "date", v |-> n]

SaveDocs ==
    << Da(Num(1)),
       Da(Date(3)),
       EmptyDoc,
       Db(Num(2)) >>

InitSave == InitWith(SaveDocs)

NextSave == Save \/ Load

SpecSave == InitSave /\ [][NextSave]_vars

\* insert called with single values and with sequences: documents, the
\* empty document, a document carrying its own _id, non-documents and null
InsertSeqs ==
    << DocObj(Da(Num(1))),
       DocObj(EmptyDoc),
       Str(1),
       Arr(<<>>),
       Arr(<<DocObj(Da(Num(1))), Num(5), DocObj(Db(Num(2)))>>),
       Arr(<<DocObj(("_id" :> Num(2)) @@ Da(Num(0))), Bool(TRUE)>>),
       Arr(<<Num(5), DocObj(Db(Num(2)))>>),
       Arr(<<DocObj(Db(Num(2))), Null>>) >>

InsertSeq == InsertOf(InsertSeqs)

SpecInsert == Init /\ [][InsertSeq]_vars

---------------------------------------------------------------------------
(* find and the cursor: sort, limit, skip, count, and the caller writing   *)
(* to a document of the cursor's _data.                                    *)

\* find( q ) returned the cursor f, or threw
Open(q, f) ==
    /\ cursor' = IF f.fault THEN NoCursor
                 ELSE [open |-> TRUE, data |-> f.data, q |-> q, found |-> f.data,
                       rows |-> f.refs, hist |-> <<>>, left |-> f.query]
    /\ last' = Call("find", <<q>>,
                    IF f.fault THEN Undefined ELSE Num(db_result_count(f.data)),
                    f.fault)
    /\ UNCHANGED <<impl, master, _id, assigned, removed, disk, sibling>>

FindOf(Queries) ==
    \E i \in 1..Len(Queries) : Open(Queries[i], find(master, Queries[i]))

Op(name, key, n) == [op |-> name, key |-> key, n |-> n]

\* a call on the cursor left _data as data and the Collection as m; count()
\* is read after it
Chain(data, m, op) ==
    /\ cursor.open
    /\ Len(cursor.hist) < MaxOps
    /\ cursor' = [cursor EXCEPT !.data = data, !.hist = Append(@, op)]
    /\ master' = m
    /\ last' = Call(op.op, <<op>>, Num(db_result_count(data)), FALSE)
    /\ UNCHANGED <<impl, _id, assigned, removed, disk, sibling>>

SortKeys == {"a"}

\* sort( {key: val} )
Sort ==
    \E key \in SortKeys, val \in {1, -1} :
        \E data \in sort(cursor.data, Q1(key, Num(val))) :
            Chain(data, master, Op("sort", key, val))

\* limit( n )
Limit ==
    \E n \in 0..MaxDocs :
        Chain(limit(cursor.data, Num(n)), master, Op("limit", NoKey, n))

\* skip( n )
Skip ==
    \E n \in 0..MaxDocs :
        Chain(skip(impl, cursor.data, Num(n)), master, Op("skip", NoKey, n))

\* getArray()[i][key] = value: the object written is the one _data holds,
\* which is a document of master only if push stored the reference
Written(_data, i, key, value) == [_data EXCEPT ![i].doc = Put(@, key, value)]

WrittenThrough(m, ref, key, value) ==
    IF ref = 0 THEN m ELSE [m EXCEPT ![ref] = Put(@, key, value)]

\* getArray()[0].a = 1
Mutate ==
    /\ Len(cursor.data) >= 1
    /\ Chain(Written(cursor.data, 1, "a", Num(1)),
             WrittenThrough(master, cursor.data[1].ref, "a", Num(1)),
             Op("set", "a", 1))

\* the documents and queries of the cursor specification
CursorDocs ==
    << Da(Num(-1)),
       Da(Num(0)),
       D(Num(1), Num(2)),
       Db(Num(2)) >>

CursorQueries ==
    << Obj(<<>>),
       Q1("b", Num(2)) >>

InitCursor == InitWith(CursorDocs)

FindCursor == FindOf(CursorQueries)

NextCursor == FindCursor \/ Sort \/ Limit \/ Skip \/ Mutate

SpecCursor == InitCursor /\ [][NextCursor]_vars

---------------------------------------------------------------------------
(* Queries against a Collection.                                           *)

QueryDocs ==
    << Da(Num(1)),
       D(Num(0), Num(2)),
       Da(Str(1)),
       Db(Num(2)),
       D(Num(1), Num(2)) >>

\* {a:1}; {a:1,b:2}; {a:{$gt:0},b:{$exists:true}}; {a:{$exists:true},
\* $or:[{a:<match-all>}]}; {$or:[{a:1},{b:2}]}; {$or:[{a:{$exists:true}},
\* {b:3}]}; {$or:[{a:{$gt:0}},{b:{$lt:3}}]}; {$or:[{a:1},{b:2}],a:{$gte:1}};
\* {$or:[{a:<match-all>},{b:2}]}
FindQueries ==
    << Q1("a", Num(1)),
       Q2("a", Num(1), "b", Num(2)),
       Q2("a", Q1("$gt", Num(0)), "b", Q1("$exists", Bool(TRUE))),
       Q2("a", Q1("$exists", Bool(TRUE)), "$or", Arr(<<Q1("a", Regexp(1))>>)),
       Q1("$or", Arr(<<Q1("a", Num(1)), Q1("b", Num(2))>>)),
       Q1("$or", Arr(<<Q1("a", Q1("$exists", Bool(TRUE))), Q1("b", Num(3))>>)),
       Q1("$or", Arr(<<Q1("a", Q1("$gt", Num(0))), Q1("b", Q1("$lt", Num(3)))>>)),
       Q2("$or", Arr(<<Q1("a", Num(1)), Q1("b", Num(2))>>), "a", Q1("$gte", Num(1))),
       Q1("$or", Arr(<<Q1("a", Regexp(1)), Q1("b", Num(2))>>)) >>

InitQuery == InitWith(QueryDocs)

NextQuery == FindOf(FindQueries)

SpecQuery == InitQuery /\ [][NextQuery]_vars

---------------------------------------------------------------------------
(* update against a Collection.                                            *)

UpdateDocs ==
    << Da(Num(1)),
       D(Num(0), Num(2)),
       Db(Num(2)),
       D(Num(1), Num(3)) >>

\* {}; {a:1}; {b:{$exists:true}}; {a:9}
UpdateQueries ==
    << Obj(<<>>),
       Q1("a", Num(1)),
       Q1("b", Q1("$exists", Bool(TRUE))),
       Q1("a", Num(9)) >>

\* {b:2}; {a:0}; {a:1,c:true}; {c:""}; {}; {_id:1}
UpdateSets ==
    << DocObj(Db(Num(2))),
       DocObj(Da(Num(0))),
       DocObj(("a" :> Num(1)) @@ ("c" :> Bool(TRUE))),
       DocObj(("c" :> Str(0))),
       DocObj(EmptyDoc),
       DocObj(("_id" :> Num(1))) >>

\* none passed, {multi:true}, {upsert:true}, {multi:false},
\* {multi:true, upsert:true}
UpdateOptions ==
    Options \o
    << <<Q1("multi", Bool(FALSE))>>,
       <<Q2("multi", Bool(TRUE), "upsert", Bool(TRUE))>> >>

InitUpdate == InitWith(UpdateDocs)

\* one update of a Collection as it was loaded
NextUpdate == last.op = "open" /\ UpdateOf(UpdateQueries, UpdateSets, UpdateOptions)

SpecUpdate == InitUpdate /\ [][NextUpdate]_vars

---------------------------------------------------------------------------
(* Claims about the ids, under Spec.                                       *)

\* C1: every _id the store assigns to a document lacking one is strictly
\* greater than every _id it assigned before, and the _id of a removed
\* document is never assigned again.
C1_IdMonotonicity ==
    [][\A i \in (Len(assigned) + 1)..Len(assigned') :
            /\ \A j \in 1..(i - 1) : assigned'[j] < assigned'[i]
            /\ Num(assigned'[i]) \notin removed]_vars

\* C2: every document in the Collection has an _id that is a positive
\* integer, and no two documents have the same _id.
C2_IdPositiveUnique ==
    /\ \A i \in 1..Len(master) :
            /\ "_id" \in DOMAIN master[i]
            /\ master[i]["_id"].t = "number"
            /\ master[i]["_id"].v >= 1
    /\ \A i, j \in 1..Len(master) :
            i # j => Get(master[i], "_id") # Get(master[j], "_id")

\* C3: the id counter is greater than or equal to the largest _id of any
\* document in the Collection.
C3_CounterAtLeastMaxId ==
    \A i \in 1..Len(master) :
        Get(master[i], "_id").t = "number" => _id >= master[i]["_id"].v

---------------------------------------------------------------------------
(* Claims about query evaluation, under SpecQuery.                         *)

RefSet(refs) == {refs[i] : i \in 1..Len(refs)}

\* the query made of clause i of q alone
Alone(q, i) == Obj(<<q.v[i]>>)

IsAndQuery(q) ==
    /\ q.t = "object"
    /\ Len(q.v) >= 2
    /\ \A i \in 1..Len(q.v) :
            detect_clause_type(q.v[i].key, q.v[i].value)
                \in {"CLAUSE_NORMAL", "CLAUSE_CONDITIONAL", "CLAUSE_OR"}

AndNarrowing(q) ==
    /\ ~last.fault
    /\ \A i \in 1..Len(q.v) : ~find(master, Alone(q, i)).fault
    /\ RefSet(cursor.rows) =
            {r \in 1..Len(master) :
                \A i \in 1..Len(q.v) : r \in RefSet(find(master, Alone(q, i)).refs)}

\* C4: for every query with two or more top-level clauses, each NORMAL,
\* CONDITIONAL or OR, the set of documents the whole query returns is the
\* intersection of the sets each clause returns when evaluated alone
\* against the full collection.
C4_AndNarrowing ==
    (last.op = "find" /\ IsAndQuery(last.args[1])) => AndNarrowing(last.args[1])

IsSubClause(elt) ==
    detect_clause_type(_firstKey(elt), ObjGet(elt, _firstKey(elt)))
        \in {"CLAUSE_NORMAL", "CLAUSE_CONDITIONAL"}

IsOrPair(q) ==
    /\ q.t = "object"
    /\ Len(q.v) = 1
    /\ q.v[1].key = "$or"
    /\ q.v[1].value.t = "array"
    /\ Len(q.v[1].value.v) = 2
    /\ \A j \in 1..2 : IsSubClause(q.v[1].value.v[j])

OrUnion(A, B) ==
    /\ ~last.fault
    /\ ~find(master, A).fault
    /\ ~find(master, B).fault
    /\ RefSet(cursor.rows) = RefSet(find(master, A).refs) \cup RefSet(find(master, B).refs)
    /\ Len(cursor.rows) = Cardinality(RefSet(cursor.rows))

\* C5: for sub-clauses A and B, each NORMAL or CONDITIONAL, {$or:[A,B]}
\* returns exactly the documents that A alone or B alone returns, each
\* document once.
C5_OrUnion ==
    (last.op = "find" /\ IsOrPair(last.args[1]))
        => OrUnion(last.args[1].v[1].value.v[1], last.args[1].v[1].value.v[2])

---------------------------------------------------------------------------
(* Claims about the cursor, under SpecCursor.                              *)

\* C6: writing to a document held by a cursor, or sort, limit or skip on
\* the cursor, never changes the Collection, and a later find with an equal
\* query returns what the first find returned.
C6_ReadIsolation ==
    [][/\ master' = master
       /\ cursor'.open => find(master', cursor'.q).data = cursor'.found]_vars

\* a document of a cursor was written to and the cursor was sorted
C6_Witness ==
    /\ Len(cursor.hist) = 2
    /\ cursor.hist[1].op = "set"
    /\ cursor.hist[2].op = "sort"
    /\ \E i \in 1..Len(cursor.data) :
            /\ cursor.data[i].doc["_id"] = cursor.found[1].doc["_id"]
            /\ cursor.data[i].doc["a"] = Num(1)
    /\ Get(cursor.found[1].doc, "a") # Num(1)
    /\ Get(master[cursor.rows[1]], "a") = Get(cursor.found[1].doc, "a")

\* the sequence P[g[1]], P[g[2]], ...
Permuted(P, g) == [i \in 1..Len(P) |-> P[g[i]]]

FirstN(P, n) == SubSeq(P, 1, Min(n, Len(P)))

\* ascending by key, the documents lacking key after those having it
AscendingAbsentLast(P, key) ==
    \A i, j \in 1..Len(P) :
        i < j => /\ ~(key \notin DOMAIN P[i].doc /\ key \in DOMAIN P[j].doc)
                 /\ (key \in DOMAIN P[i].doc /\ key \in DOMAIN P[j].doc)
                        => ~Lt(P[j].doc[key], P[i].doc[key])

\* ascending by key, the documents whose key is absent or falsy first
AscendingFalsyFirst(P, key) ==
    \A i, j \in 1..Len(P) :
        i < j => /\ ~(Truthy(Get(P[i].doc, key)) /\ ~Truthy(Get(P[j].doc, key)))
                 /\ (Truthy(Get(P[i].doc, key)) /\ Truthy(Get(P[j].doc, key)))
                        => ~Lt(P[j].doc[key], P[i].doc[key])

\* the cursor is find(Q).sort({key: 1}).limit(n)
IsSortLimit(hist) ==
    /\ Len(hist) = 2
    /\ hist[1].op = "sort"
    /\ hist[1].n = 1
    /\ hist[2].op = "limit"

IsCall(name, hist, after) ==
    /\ Len(after) = Len(hist) + 1
    /\ after[Len(after)].op = name

AllDistinct(_data, key) ==
    /\ \A i \in 1..Len(_data) : key \in DOMAIN _data[i].doc
    /\ \A i, j \in 1..Len(_data) :
            i # j => _data[i].doc[key] # _data[j].doc[key]

StrictlyOrdered(_data, key, val) ==
    \A i, j \in 1..Len(_data) :
        i < j => IF val = 1 THEN Lt(_data[i].doc[key], _data[j].doc[key])
                 ELSE Lt(_data[j].doc[key], _data[i].doc[key])

SameDocuments(before, after) ==
    /\ Len(before) = Len(after)
    /\ \E g \in Perms(Len(before)) : after = Permuted(before, g)

Sorted(before, after, op) ==
    /\ StrictlyOrdered(after, op.key, op.n)
    /\ SameDocuments(before, after)

\* C9: when every document of the cursor has the sort field and the values
\* are pairwise distinct, sort with direction +1 leaves the cursor strictly
\* ascending and with -1 strictly descending, holding the same documents.
C9_SortStrict ==
    [][(/\ IsCall("sort", cursor.hist, cursor'.hist)
        /\ AllDistinct(cursor.data, cursor'.hist[Len(cursor'.hist)].key))
            => Sorted(cursor.data, cursor'.data, cursor'.hist[Len(cursor'.hist)])]_vars

\* C10: for a cursor holding k documents and an integer n >= 0, limit(n)
\* leaves exactly the first min(n, k) documents in their order, and count()
\* returns min(n, k).
C10_LimitKeepsFirst ==
    [][IsCall("limit", cursor.hist, cursor'.hist)
            => /\ cursor'.data = FirstN(cursor.data, cursor'.hist[Len(cursor'.hist)].n)
               /\ last'.ret = Num(Min(cursor'.hist[Len(cursor'.hist)].n,
                                      Len(cursor.data)))]_vars

\* limit(1) cut a cursor of three documents, and limit(3) left one of two
\* as it was
C10_Witness ==
    /\ Len(cursor.hist) = 2
    /\ cursor.hist[1].op = "limit"
    /\ cursor.hist[2].op = "limit"
    /\ \/ cursor.hist[1].n = 3 /\ cursor.hist[2].n = 1 /\ Len(cursor.found) = 3
          /\ cursor.data = <<cursor.found[1]>> /\ last.ret = Num(1)
       \/ cursor.hist[1].n = 2 /\ cursor.hist[2].n = 3 /\ Len(cursor.found) = 3
          /\ Len(cursor.data) = 2 /\ last.ret = Num(2)

---------------------------------------------------------------------------
(* The claim about update, under SpecUpdate.                               *)

\* what find shows of a Collection
Seen(m) == find(m, Obj(<<>>)).data

\* a document with every field of S at its new value, the others untouched
Applied(doc, S) ==
    [k \in DOMAIN doc \cup DOMAIN S |-> IF k \in DOMAIN S THEN S[k] ELSE doc[k]]

\* update( Q, {$set: S}, options ) without a fault
IsUpdate(call) == call.op = "update" /\ ~call.fault

Multi(args) == Len(args) = 3 /\ Truthy(ObjGet(args[3], "multi"))

\* before and after are the Collection around an update; matched holds the
\* positions of the documents Q matches before it
WriteVisible(before, after, S, matched, multi) ==
    /\ Len(Seen(after)) >= Len(before)
    /\ \A r \in 1..Len(before) :
            \/ Seen(after)[r] = push(<<>>, [ref |-> r, doc |-> before[r]])[1]
            \/ Seen(after)[r] = push(<<>>, [ref |-> r, doc |-> Applied(before[r], S)])[1]
    /\ \A r \in 1..Len(before) :
            r \notin RefSet(matched)
                => Seen(after)[r] = push(<<>>, [ref |-> r, doc |-> before[r]])[1]
    /\ \A i \in 1..Len(matched) :
            (i = 1 \/ multi)
                => Seen(after)[matched[i]] =
                        push(<<>>, [ref |-> 0, doc |-> Applied(before[matched[i]], S)])[1]

\* C7: after update(Q, {$set: S}, options) returns, the next find sees
\* every altered document with each field of S at its new value and every
\* other field unchanged, and every other document exactly as before.
C7_WriteVisible ==
    [][IsUpdate(last')
            => WriteVisible(master, master', SetDoc(ObjGet(last'.args[2], "$set")),
                            find(master, last'.args[1]).refs, Multi(last'.args))]_vars

\* an update with multi wrote a falsy value over two documents
C7_Witness ==
    /\ IsUpdate(last)
    /\ Multi(last.args)
    /\ last.ret.v >= 2
    /\ ObjGet(last.args[2], "$set") = DocObj(Da(Num(0)))
    /\ \A r \in 1..Len(master) : Get(master[r], "a") = Num(0)
    /\ Len(master) = 3

---------------------------------------------------------------------------
(* More claims about the cursor, under SpecCursor.                         *)

Skipped(before, after, n, ret) ==
    /\ after = SubSeq(before, Min(n, Len(before)) + 1, Len(before))
    /\ ret = Num(Len(before) - Min(n, Len(before)))

\* C11: for a cursor holding k documents and an integer n >= 0, skip(n)
\* removes the first min(n, k) documents, leaves the others in their order,
\* and count() returns k - min(n, k).
C11_SkipDropsFirst ==
    [][IsCall("skip", cursor.hist, cursor'.hist)
            => Skipped(cursor.data, cursor'.data,
                       cursor'.hist[Len(cursor'.hist)].n, last'.ret)]_vars

---------------------------------------------------------------------------
(* Calls with arguments of the wrong kind.                                 *)

\* limit( x ) and skip( x ) with x of any type
ArgOp(name, x) == [op |-> name, key |-> NoKey, n |-> x]

LimitOf(Xs) ==
    \E i \in 1..Len(Xs) :
        Chain(limit(cursor.data, Xs[i]), master, ArgOp("limit", Xs[i]))

SkipOf(Xs) ==
    \E i \in 1..Len(Xs) :
        Chain(skip(impl, cursor.data, Xs[i]), master, ArgOp("skip", Xs[i]))

\* -1, -2, a name, and no argument at all
BadNumbers ==
    << Num(-1),
       Num(-2),
       Str(1),
       Undefined >>

LimitBad == LimitOf(BadNumbers)

SkipBad == SkipOf(BadNumbers)

FindAll == FindOf(<<Obj(<<>>)>>)

InitArgs == InitWith(CursorDocs)

\* what is no document: 5, true, a name, and [{a:1}]
NonDocs ==
    << Num(5),
       Bool(TRUE),
       Str(1),
       Arr(<<Q1("a", Num(1))>>) >>

FindBad == FindOf(NonDocs)

RemoveBad ==
    \E i \in 1..Len(NonDocs) :
        CommitRemove(<<NonDocs[i]>>, remove(Store, <<NonDocs[i]>>))

\* update(); update({a:1}); update(5, {$set:{b:2}}); update({}, 5);
\* update({}, {$set:{b:2}}, 1); update({}, {b:2}); update(null, {$set:{b:2}});
\* update({}, null); update({}, {$set:{b:2}}, null);
\* update({a:9}, {$set:5}, {upsert:true})
BadUpdateArgs ==
    << <<>>,
       <<Q1("a", Num(1))>>,
       <<Num(5), Q1("$set", DocObj(Db(Num(2))))>>,
       <<Obj(<<>>), Num(5)>>,
       <<Obj(<<>>), Q1("$set", DocObj(Db(Num(2)))), Num(1)>>,
       <<Obj(<<>>), Q1("b", Num(2))>>,
       <<Null, Q1("$set", DocObj(Db(Num(2))))>>,
       <<Obj(<<>>), Null>>,
       <<Obj(<<>>), Q1("$set", DocObj(Db(Num(2)))), Null>>,
       <<Q1("a", Num(9)), Q1("$set", Num(5)), Q1("upsert", Bool(TRUE))>> >>

UpdateBad ==
    \E i \in 1..Len(BadUpdateArgs) :
        Commit("update", BadUpdateArgs[i], update(impl, Store, BadUpdateArgs[i]))

NextArgs == FindAll \/ LimitBad \/ SkipBad

InitCalls == InitWith(QueryDocs)

NextCalls == FindBad \/ RemoveBad \/ UpdateBad

SpecCalls == InitCalls /\ [][NextCalls]_vars

SpecArgs == InitArgs /\ [][NextArgs]_vars

\* x does not coerce to a non-negative integer
NotACount(x) == Number(x).nan \/ Number(x).n < 0

IsCursorCall(hist, after) ==
    IsCall("limit", hist, after) \/ IsCall("skip", hist, after)

\* C12: limit(x) and skip(x) with an argument that does not coerce to a
\* non-negative integer (not a number, or negative) leave the cursor's
\* documents and its length unchanged.
C12_BadCountIgnored ==
    [][(/\ IsCursorCall(cursor.hist, cursor'.hist)
        /\ NotACount(cursor'.hist[Len(cursor'.hist)].n))
            => /\ cursor'.data = cursor.data
               /\ last'.ret = Num(db_result_count(cursor.data))]_vars

---------------------------------------------------------------------------
(* More claims about update, under SpecUpdate.                             *)

\* how many documents a call changed or added
Modified(before, after) ==
    Cardinality({r \in 1..Len(before) : after[r] # before[r]})
        + (Len(after) - Len(before))

HasApplied(doc, S) == \A k \in DOMAIN S : Get(doc, k) = S[k]

MultiApplied(before, after, S, matched, multi) ==
    /\ Len(after) >= Len(before)
    /\ ~multi => Modified(before, after) <= 1
    /\ multi => \A i \in 1..Len(matched) : HasApplied(after[matched[i]], S)

\* C13: for update with a valid $set, when options.multi is absent or
\* false at most one document of the Collection is modified; when it is
\* true every document matching the query has every field of $set applied.
C13_MultiOrOne ==
    [][IsUpdate(last')
            => MultiApplied(master, master', SetDoc(ObjGet(last'.args[2], "$set")),
                            find(master, last'.args[1]).refs, Multi(last'.args))]_vars

\* update( {b:{$exists:true}}, {$set:{a:1,c:true}} ) without options, on a
\* Collection with two documents having b: one got c, the other did not
C13_Witness ==
    /\ IsUpdate(last)
    /\ Len(last.args) = 2
    /\ last.args[1] = Q1("b", Q1("$exists", Bool(TRUE)))
    /\ last.ret = Num(1)
    /\ \E r, t \in 1..Len(master) :
            /\ Truthy(Get(master[r], "b"))
            /\ Truthy(Get(master[t], "b"))
            /\ Get(master[r], "c") = Bool(TRUE)
            /\ "c" \notin DOMAIN master[t]

Upserting(args) == Len(args) = 3 /\ Truthy(ObjGet(args[3], "upsert"))

\* the document appended has the fields of S and the _id just drawn
IsUpserted(doc, S, id) ==
    /\ DOMAIN doc = DOMAIN S \cup {"_id"}
    /\ \A k \in DOMAIN S \ {"_id"} : doc[k] = S[k]
    /\ doc["_id"] = Num(id)

UpsertAppends(before, after, S, ret, idBefore, idAfter) ==
    /\ Len(after) = Len(before) + 1
    /\ SubSeq(after, 1, Len(before)) = before
    /\ idAfter = idBefore + 1
    /\ IsUpserted(after[Len(after)], S, idAfter)
    /\ ret = Num(1)
    /\ count(after) = count(before) + 1

\* C14: when the query matches no document and options.upsert is true,
\* update appends exactly one new document whose fields are those of $set
\* plus a newly assigned _id, returns 1, and count() grows by 1; otherwise
\* update inserts no document and count() is unchanged.
C14_Upsert ==
    [][IsUpdate(last')
            => IF Len(find(master, last'.args[1]).refs) = 0 /\ Upserting(last'.args)
               THEN UpsertAppends(master, master',
                                  SetDoc(ObjGet(last'.args[2], "$set")),
                                  last'.ret, _id, _id')
               ELSE count(master') = count(master)]_vars

---------------------------------------------------------------------------
(* The claim about remove, under Spec.                                     *)

\* the sequence m without the documents at the positions in gone
Without(m, gone) ==
    [i \in 1..(Len(m) - Cardinality(gone)) |->
        m[CHOOSE r \in 1..Len(m) :
            /\ r \notin gone
            /\ Cardinality({t \in 1..r : t \notin gone}) = i]]

RemovedAll(before, after, gone, ret) ==
    /\ after = Without(before, gone)
    /\ ret = Num(Cardinality(gone))
    /\ count(after) = count(before) - ret.v

RemoveQueryOf(args) == IF Len(args) = 0 THEN Obj(<<>>) ELSE args[1]

\* C15: remove(query) deletes every document the query matches (every
\* document when no query is given), returns the number deleted, and
\* count() afterwards is count() before minus that number, also for a
\* Collection built from empty documents or documents with their own _id.
C15_RemoveDeletesMatches ==
    [][(last'.op = "remove" /\ ~last'.fault)
            => RemovedAll(master, master',
                          RefSet(find(master, RemoveQueryOf(last'.args)).refs),
                          last'.ret)]_vars

---------------------------------------------------------------------------
(* The claim about the _id of stored documents, under SpecUpdate.          *)

SameIds(before, after) ==
    /\ Len(after) >= Len(before)
    /\ \A r \in 1..Len(before) : Get(after[r], "_id") = Get(before[r], "_id")

\* C16: no update(query, {$set: S}, options), S containing the key _id
\* included, changes the _id of a document already in the Collection.
C16_IdImmutable ==
    [][IsUpdate(last') => SameIds(master, master')]_vars

---------------------------------------------------------------------------
(* Claims about calls with arguments of the wrong kind, under SpecCalls.   *)

IsNonDoc(x) == x.t \in {"number", "boolean", "string", "array"}

IsCallWith(call, name) ==
    /\ call.op = name
    /\ Len(call.args) = 1
    /\ IsNonDoc(call.args[1])

\* C17: for every query argument that is not a document (a number, a
\* boolean, a string or an array) remove returns 0 and leaves the
\* Collection unchanged, and find returns a cursor whose count() is 0.
C17_NonDocumentQuery ==
    [][/\ IsCallWith(last', "remove") => (last'.ret = Num(0) /\ master' = master)
       /\ IsCallWith(last', "find")
            => (~last'.fault /\ last'.ret = Num(0) /\ Len(cursor'.data) = 0)]_vars

IsDoc(x) == x.t = "object"

\* fewer than two arguments, a query, update spec or options that is no
\* document, or an update spec without a $set mapping
IsBadUpdate(args) ==
    \/ Len(args) < 2
    \/ ~IsDoc(args[1])
    \/ ~IsDoc(args[2])
    \/ Len(args) >= 3 /\ ~IsDoc(args[3])
    \/ ~IsDoc(ObjGet(args[2], "$set"))

\* C18: update returns 0 and leaves the Collection and the id counter
\* unchanged when called with fewer than two arguments, a non-document
\* query or update spec, a non-document options argument, or an update
\* spec without a $set mapping.
C18_BadUpdateIgnored ==
    [][(last'.op = "update" /\ IsBadUpdate(last'.args))
            => /\ ~last'.fault
               /\ last'.ret = Num(0)
               /\ master' = master
               /\ _id' = _id]_vars

(* C19: for every reachable Collection X, saving X and then opening a new  *)
(* store on the snapshot gives a Collection with the same documents in the *)
(* same order, each with the same _id and the same field values.           *)
SameCollection(X, Y) ==
    /\ Len(X) = Len(Y)
    /\ \A i \in DOMAIN X :
        /\ DOMAIN X[i] = DOMAIN Y[i]
        /\ \A k \in DOMAIN X[i] : X[i][k] = Y[i][k]

IsReloaded(call, file) == call.op = "load" /\ file.exists

C19_SaveLoadRoundTrip ==
    IsReloaded(last, disk) => SameCollection(disk.saved, master)

(* C20: insert of a single document returns the _id stored on that         *)
(* document; insert of a sequence appends every document element in        *)
(* sequence order, skips every non-document element without appending it   *)
(* or consuming an id, and returns the result of the last element: its _id *)
(* if it is a document, -1 if it is not.                                   *)
Elements(Arg) == IF Arg.t = "array" THEN Arg.v ELSE <<Arg>>

StoredAs(doc, stored) ==
    /\ DOMAIN stored = DOMAIN doc \cup {"_id"}
    /\ \A k \in DOMAIN doc \ {"_id"} : stored[k] = doc[k]

Appended(before, after, docs) ==
    /\ Len(after) = Len(before) + Len(docs)
    /\ SubSeq(after, 1, Len(before)) = before
    /\ \A i \in DOMAIN docs : StoredAs(docs[i].v, after[Len(before) + i])

LastResult(elems, after, ret) ==
    \/ elems = <<>>
    \/ /\ IsDoc(elems[Len(elems)])
       /\ after # <<>>
       /\ "_id" \in DOMAIN after[Len(after)]
       /\ ret = after[Len(after)]["_id"]
    \/ /\ ~IsDoc(elems[Len(elems)])
       /\ ret = Num(-1)

Inserted(before, after, elems, docs, call) ==
    /\ ~call.fault
    /\ Appended(before.master, after.master, docs)
    /\ after._id - before._id \in 0..Len(docs)
    /\ LastResult(elems, after.master, call.ret)

C20_InsertResult ==
    [][last'.op = "insert" =>
        Inserted(Store, Store', Elements(last'.args[1]),
                 SelectSeq(Elements(last'.args[1]), IsDoc), last')]_vars

---------------------------------------------------------------------------
(* Queries clause by clause: documents with falsy values, and queries of   *)
(* every clause type, well-formed and not, found once and found again with *)
(* the same query object.                                                  *)

\* {a:0}; {a:1}; {a:""}; {b:2}; {a:2,b:2}; {a:false}
ClauseDocs ==
    << Da(Num(0)),
       Da(Num(1)),
       Da(Str(0)),
       Db(Num(2)),
       D(Num(2), Num(2)),
       Da(Bool(FALSE)) >>

\* {}; null; {a:1}; {a:{$exists:true}}; {a:{$exists:false}};
\* {a:{$gt:0,$lt:2}}; {a:{$gte:1}}; {a:{$gt:0,$lte:2,$exists:true}};
\* {a:{$gt:0,foo:1}}; {a:{foo:1}}; {"a.b":1}; {a:[1]}; {a:undefined};
\* {$or:[{a:<match-all>}]}; {b:2,a:{$lt:3}}
ClauseQueries ==
    << Obj(<<>>),
       Null,
       Q1("a", Num(1)),
       Q1("a", Q1("$exists", Bool(TRUE))),
       Q1("a", Q1("$exists", Bool(FALSE))),
       Q1("a", Q2("$gt", Num(0), "$lt", Num(2))),
       Q1("a", Q1("$gte", Num(1))),
       Q1("a", Obj(<<[key |-> "$gt", value |-> Num(0)],
                     [key |-> "$lte", value |-> Num(2)],
                     [key |-> "$exists", value |-> Bool(TRUE)]>>)),
       Q1("a", Q2("$gt", Num(0), "foo", Num(1))),
       Q1("a", Q1("foo", Num(1))),
       Q1("a.b", Num(1)),
       Q1("a", Arr(<<Num(1)>>)),
       Q1("a", Undefined),
       Q1("$or", Arr(<<Q1("a", Regexp(1))>>)),
       Q2("b", Num(2), "a", Q1("$lt", Num(3))) >>

InitClauses == InitWith(ClauseDocs)

FindClauses == FindOf(ClauseQueries)

\* find( q ) again, q being the object the last find was called with
FindAgain ==
    /\ cursor.open
    /\ Open(cursor.left, find(master, cursor.left))

NextClauses == FindClauses \/ FindAgain

SpecClauses == InitClauses /\ [][NextClauses]_vars

---------------------------------------------------------------------------
(* Claims about query evaluation clause by clause, under SpecClauses.      *)

IsFound(call) == call.op = "find" /\ ~call.fault

IsEmptyQuery(q) == q.t = "null" \/ (q.t = "object" /\ q.v = <<>>)

\* rows are positions of m, each at most once, in the order of m, and the
\* documents found are the documents at those positions
Subsequence(rows, found, m) ==
    /\ Len(found) = Len(rows)
    /\ \A i \in DOMAIN rows : rows[i] \in DOMAIN m
    /\ \A i, j \in DOMAIN rows : i < j => rows[i] < rows[j]
    /\ \A i \in DOMAIN rows : found[i].doc = JSONClone(m[rows[i]])

Whole(rows, m) == rows = [i \in DOMAIN m |-> i]

\* C21: for every query and every Collection, the sequence query evaluation
\* returns is a subsequence of the Collection: only documents of the
\* Collection, each at most once, in the Collection's order; for an empty
\* or null query it is the whole Collection.
C21_Subsequence ==
    IsFound(last) =>
        /\ Subsequence(cursor.rows, cursor.found, master)
        /\ IsEmptyQuery(last.args[1]) => Whole(cursor.rows, master)

C21_Witness ==
    /\ IsFound(last)
    /\ ~IsEmptyQuery(last.args[1])
    /\ cursor.rows = <<1, 3>>

IsClause(e) ==
    detect_clause_type(e.key, e.value) \in {"CLAUSE_NORMAL", "CLAUSE_CONDITIONAL", "CLAUSE_OR"}

\* a CONDITIONAL value without the keys that are no operator
Operators(key, value) ==
    IF detect_clause_type(key, value) = "CLAUSE_CONDITIONAL"
    THEN Obj(SelectSeq(value.v, LAMBDA e : e.key \in CondOps))
    ELSE value

\* the well-formed part of q: its NORMAL, CONDITIONAL and OR clauses
WellFormed(q) ==
    Obj([i \in DOMAIN SelectSeq(q.v, IsClause) |->
            [key |-> SelectSeq(q.v, IsClause)[i].key,
             value |-> Operators(SelectSeq(q.v, IsClause)[i].key,
                                 SelectSeq(q.v, IsClause)[i].value)]])

PassesThrough(call, rows, wellformed) ==
    /\ ~call.fault
    /\ rows = wellformed.refs

\* C22: for every query object and every Collection, query evaluation
\* raises no fault, and every clause that is no well-formed NORMAL,
\* CONDITIONAL or OR clause (a key that is no operator after the first
\* operator of a CONDITIONAL value included) leaves the running result
\* unchanged: the query selects what its well-formed part selects.
C22_MalformedPassThrough ==
    (last.op = "find" /\ last.args[1].t = "object")
        => PassesThrough(last, cursor.rows, find(master, WellFormed(last.args[1])))

\* a query of one CONDITIONAL clause whose value holds operators only
IsConditionalQuery(q) ==
    /\ q.t = "object"
    /\ Len(q.v) = 1
    /\ q.v[1].value.t = "object"
    /\ Len(q.v[1].value.v) >= 1
    /\ \A j \in DOMAIN q.v[1].value.v : q.v[1].value.v[j].key \in CondOps

\* the rows that satisfy every operator of value on the field key
AllOperators(key, value, rows) ==
    SelectSeq(rows, LAMBDA row :
        \A j \in DOMAIN value.v :
            CondRow(key, value.v[j].key, value.v[j].value, row.doc))

\* a pass over a value that still holds the operators j.. leaves j+1..
OnePerPass(key, value, rows) ==
    \A j \in DOMAIN value.v :
        matching_rows_CONDITIONAL(
            [key |-> key, value |-> Obj(SubSeq(value.v, j, Len(value.v)))], rows).value
          = Obj(SubSeq(value.v, j + 1, Len(value.v)))

Consumed(loop, value, all) ==
    /\ loop.passes = Len(value.v)
    /\ loop.value = Obj(<<>>)
    /\ loop.res = all

Narrowed(c, clause, all, loop) ==
    /\ Consumed(loop, clause.value, all)
    /\ c.rows = [i \in DOMAIN all |-> all[i].ref]
    /\ c.left = Q1(clause.key, Obj(<<>>))

\* C23: a CONDITIONAL clause whose value carries k operator keys is
\* evaluated in exactly k matcher passes, each pass removes exactly one
\* operator from the clause value, the value has no keys left afterwards,
\* and the result is exactly the input documents that satisfy all k
\* operators on that field.
C23_ConditionalPasses ==
    (last.op = "find" /\ IsConditionalQuery(last.args[1])) =>
        /\ ~last.fault
        /\ OnePerPass(last.args[1].v[1].key, last.args[1].v[1].value, Refs(master))
        /\ Narrowed(cursor, last.args[1].v[1],
                    AllOperators(last.args[1].v[1].key, last.args[1].v[1].value, Refs(master)),
                    CondLoop(last.args[1].v[1].key, last.args[1].v[1].value, Refs(master), 0))

C23_Witness ==
    /\ last.op = "find"
    /\ IsConditionalQuery(last.args[1])
    /\ Len(last.args[1].v[1].value.v) = 3
    /\ Len(cursor.rows) = 2
    /\ Len(master) = 3

IsExistsQuery(q) ==
    /\ q.t = "object"
    /\ Len(q.v) = 1
    /\ q.v[1].value.t = "object"
    /\ Len(q.v[1].value.v) = 1
    /\ q.v[1].value.v[1].key = "$exists"
    /\ q.v[1].value.v[1].value.t = "boolean"

Falsy == {Num(0), Str(0), Bool(FALSE), Null, Undefined}

PresentTruthy(doc, f) == f \in DOMAIN doc /\ doc[f] \notin Falsy

\* the positions of m, in order, whose document satisfies P
Positions(m, P(_)) ==
    LET hits == SelectSeq(Refs(m), LAMBDA row : P(row.doc))
    IN  [i \in DOMAIN hits |-> hits[i].ref]

ExistsSplit(rows, f, b, m, other) ==
    /\ rows = Positions(m, LAMBDA doc : PresentTruthy(doc, f) = b)
    /\ RefSet(rows) \cap RefSet(other) = {}
    /\ RefSet(rows) \cup RefSet(other) = DOMAIN m

---------------------------------------------------------------------------
(* Claims about what update returns, under SpecUpdate.                     *)

Upserts(args) == Len(args) = 3 /\ Truthy(ObjGet(args[3], "upsert"))

\* the positions update visits: every match with multi, else the first
VisitedOf(matched, multi) ==
    {matched[i] : i \in {j \in DOMAIN matched : multi \/ j = 1}}

\* a field of S is absent from doc, falsy in it, or different from S's
NeedsSet(doc, S) ==
    \E k \in DOMAIN S : k \notin DOMAIN doc \/ doc[k] \in Falsy \/ doc[k] # S[k]

CountsAltered(before, after, S, visited, ret) ==
    /\ ret = Num(Cardinality({r \in visited : NeedsSet(before[r], S)}))
    /\ \A r \in visited : ~NeedsSet(before[r], S) => after[r] = before[r]

---------------------------------------------------------------------------
(* Snapshots of unknown provenance: a store opened on a file that holds    *)
(* documents with and without _id.                                         *)

\* {a:1}; {_id:2,a:1}; {}; {_id:1,b:2}; {b:2}; {_id:3}
SnapshotDocs ==
    << Da(Num(1)),
       ("_id" :> Num(2)) @@ Da(Num(1)),
       EmptyDoc,
       ("_id" :> Num(1)) @@ Db(Num(2)),
       Db(Num(2)),
       ("_id" :> Num(3)) >>

Snapshot(f) == [i \in DOMAIN f |-> SnapshotDocs[f[i]]]

InitSnapshot ==
    /\ impl \in {"mongolite", "buryat"}
    /\ master = <<>>
    /\ _id = 0
    /\ cursor = NoCursor
    /\ assigned = <<>>
    /\ removed = {}
    /\ last = Call("open", <<>>, Undefined, FALSE)
    /\ sibling = NoSibling
    /\ \E f \in Picks(SnapshotDocs) :
            disk = [exists |-> TRUE, text |-> Snapshot(f), saved |-> Snapshot(f)]

SpecLoad == InitSnapshot /\ [][Load]_vars

LacksId(doc) == "_id" \notin DOMAIN doc

\* the largest _id among the documents of m, 0 if none has one
LargestId(m) ==
    IF \A i \in DOMAIN m : LacksId(m[i]) THEN 0
    ELSE CHOOSE n \in {m[i]["_id"].v : i \in {j \in DOMAIN m : ~LacksId(m[j])}} :
            \A i \in DOMAIN m : LacksId(m[i]) \/ m[i]["_id"].v <= n

\* how many documents of text up to position i lack _id
Missing(text, i) == Cardinality({j \in 1..i : LacksId(text[j])})

Backfilled(text, m, counter) ==
    /\ Len(m) = Len(text)
    /\ \A i \in DOMAIN text :
            IF LacksId(text[i])
            THEN m[i] = Put(text[i], "_id", Num(LargestId(text) + Missing(text, i)))
            ELSE m[i] = text[i]
    /\ counter = LargestId(m)

\* C26: after loading a snapshot in which some documents lack _id, every
\* document of the Collection has an _id, documents that had one keep it,
\* the backfilled ids are max+1, max+2, ... in sequence order, max being
\* the largest _id of the snapshot, no backfilled id equals an id already
\* present, and the id counter equals the largest _id in the Collection.
C26_LoadBackfill ==
    (last.op = "load" /\ \E i \in DOMAIN disk.text : LacksId(disk.text[i]))
        => Backfilled(disk.text, master, _id)

---------------------------------------------------------------------------
(* Claims about the query object a caller holds, under SpecClauses.        *)

\* the call is find( q ) with the object q the last find was called with
IsSameObject(c, call) == c.open /\ call.args = <<c.left>>

SelectsAgain(c, after, call) ==
    /\ after.left = call.args[1]
    /\ IsSameObject(c, call) => after.rows = c.rows

\* C27: query evaluation does not change the query object: find called
\* twice with the same query object against an unchanged Collection selects
\* the same documents both times, CONDITIONAL clauses included.
C27_QueryObjectKept ==
    [][IsFound(last') => SelectsAgain(cursor, cursor', last')]_vars

---------------------------------------------------------------------------
(* Inserts and removes, a save, and a new store opened on what was saved.  *)

ReloadInserts ==
    << DocObj(Da(Num(1))),
       DocObj(Db(Num(2))) >>

ReloadQueries ==
    << Q1("a", Num(1)) >>

InsertReload == InsertOf(ReloadInserts)

RemoveReload == RemoveOf(ReloadQueries)

\* the store is opened again on the file save has just written
LoadSaved == last.op = "save" /\ Load

NextReload == InsertReload \/ RemoveReload \/ Save \/ LoadSaved

SpecReload == Init /\ [][NextReload]_vars

\* the ids an insert drew from the counter
NewIds(before, after) == {after[i] : i \in (Len(before) + 1)..Len(after)}

AboveAll(ids, before) == \A n \in ids : \A i \in DOMAIN before : before[i] < n

\* C28: ids are not reused across a save and reload: after inserts and
\* removes, a save and a load into a new store, the first _id assigned is
\* strictly greater than every _id assigned before the save, the ids of
\* documents removed before the save included.
C28_NoReuseAcrossReload ==
    [][(last.op = "load" /\ last'.op = "insert")
            => AboveAll(NewIds(assigned, assigned'), assigned)]_vars

---------------------------------------------------------------------------
(* update( Q, {$set: S}, {multi:true} ) applied to a Collection, and then  *)
(* applied a second time with an equal query.                              *)

MultiOnly == << <<Q1("multi", Bool(TRUE))>> >>

UpdateOnce == last.op = "open" /\ UpdateOf(UpdateQueries, UpdateSets, MultiOnly)

\* the second application: the same arguments, the query a new equal object
UpdateAgain ==
    /\ last.op = "update"
    /\ Commit("update again", last.args, update(impl, Store, last.args))

NextTwice == UpdateOnce \/ UpdateAgain

SpecTwice == InitUpdate /\ [][NextTwice]_vars

NothingLeft(before, after, call) ==
    /\ ~call.fault
    /\ call.ret = Num(0)
    /\ after = before

\* C29: update is idempotent: for every Collection, query Q and $set
\* mapping S, falsy values included, a second update(Q, {$set:S},
\* {multi:true}) with an equal fresh query returns 0 and leaves the
\* Collection exactly as the first application left it.
C29_UpdateIdempotent ==
    [][last'.op = "update again" => NothingLeft(master, master', last')]_vars

---------------------------------------------------------------------------
(* The two implementations side by side: a mongolite store (master, _id,   *)
(* cursor, last) and a buryat store (sibling) given the same calls.        *)

SiblingStore == [master |-> sibling.master, _id |-> sibling._id]

InitSiblings ==
    /\ impl = "mongolite"
    /\ master = <<>>
    /\ _id = 0
    /\ cursor = NoCursor
    /\ assigned = <<>>
    /\ removed = {}
    /\ last = Call("open", <<>>, Undefined, FALSE)
    /\ disk = NoDisk
    /\ sibling = NoSibling

\* insert or update left r in mongolite and s in buryat; the caller holds
\* no cursor across a call that writes
BothCommit(op, args, r, s) ==
    /\ Len(r.master) <= MaxDocs
    /\ Len(s.master) <= MaxDocs
    /\ r._id <= MaxId
    /\ s._id <= MaxId
    /\ master' = r.master
    /\ _id' = r._id
    /\ assigned' = assigned \o r.drawn
    /\ last' = Call(op, args, r.ret, r.fault)
    /\ sibling' = Sibling(s.master, s._id, <<>>, s.ret, s.fault)
    /\ cursor' = NoCursor
    /\ UNCHANGED <<impl, removed, disk>>

\* remove left r in mongolite and s in buryat
BothRemoved(args, r, s) ==
    /\ master' = r.master
    /\ removed' = removed \cup r.gone
    /\ last' = Call("remove", args, r.ret, r.fault)
    /\ sibling' = Sibling(s.master, sibling._id, <<>>, s.ret, s.fault)
    /\ cursor' = NoCursor
    /\ UNCHANGED <<impl, _id, assigned, disk>>

\* find returned f in mongolite and g in buryat
BothOpen(q, f, g) ==
    /\ cursor' = IF f.fault THEN NoCursor
                 ELSE [open |-> TRUE, data |-> f.data, q |-> q, found |-> f.data,
                       rows |-> f.refs, hist |-> <<>>, left |-> f.query]
    /\ last' = Call("find", <<q>>,
                    IF f.fault THEN Undefined ELSE Num(db_result_count(f.data)),
                    f.fault)
    /\ sibling' = [sibling EXCEPT
                        !.data = IF g.fault THEN <<>> ELSE g.data,
                        !.ret = IF g.fault THEN Undefined ELSE Num(db_result_count(g.data)),
                        !.fault = g.fault]
    /\ UNCHANGED <<impl, master, _id, assigned, removed, disk>>

\* a call on both cursors left _data as data and as other
BothChain(data, other, op) ==
    /\ cursor.open
    /\ Len(cursor.hist) < MaxOps
    /\ cursor' = [cursor EXCEPT !.data = data, !.hist = Append(@, op)]
    /\ last' = Call(op.op, <<op>>, Num(db_result_count(data)), FALSE)
    /\ sibling' = [sibling EXCEPT !.data = other,
                                  !.ret = Num(db_result_count(other)),
                                  !.fault = FALSE]
    /\ UNCHANGED <<impl, master, _id, assigned, removed, disk>>

\* {a:1}; {b:2}; {}
SiblingInserts ==
    << DocObj(Da(Num(1))),
       DocObj(Db(Num(2))),
       DocObj(EmptyDoc) >>

\* {}; {a:1}
SiblingQueries ==
    << Obj(<<>>),
       Q1("a", Num(1)) >>

BothInsert ==
    \E i \in DOMAIN SiblingInserts :
        BothCommit("insert", <<SiblingInserts[i]>>,
                   insert("mongolite", Store, SiblingInserts[i]),
                   insert("buryat", SiblingStore, SiblingInserts[i]))

BothUpdate ==
    \E i \in DOMAIN SiblingQueries, k \in DOMAIN Options :
        BothCommit("update", UpdateArgs(SiblingQueries[i], SetObjs[1], Options[k]),
                   update("mongolite", Store,
                          UpdateArgs(SiblingQueries[i], SetObjs[1], Options[k])),
                   update("buryat", SiblingStore,
                          UpdateArgs(SiblingQueries[i], SetObjs[1], Options[k])))

BothRemove ==
    \E i \in 0..Len(SiblingQueries) :
        BothRemoved(RemoveArgs(SiblingQueries, i),
                    remove(Store, RemoveArgs(SiblingQueries, i)),
                    remove(SiblingStore, RemoveArgs(SiblingQueries, i)))

BothFind ==
    \E i \in DOMAIN SiblingQueries :
        BothOpen(SiblingQueries[i], find(master, SiblingQueries[i]),
                 find(sibling.master, SiblingQueries[i]))

\* count() of the store
BothCount ==
    /\ last' = Call("count", <<>>, Num(count(master)), FALSE)
    /\ sibling' = [sibling EXCEPT !.ret = Num(count(sibling.master)), !.fault = FALSE,
                                  !.data = <<>>]
    /\ cursor' = NoCursor
    /\ UNCHANGED <<impl, master, _id, assigned, removed, disk>>

\* the same engine sorting the same array gives the same order
BothSort ==
    \E key \in SortKeys, val \in {1, -1} :
        \E data \in sort(cursor.data, Q1(key, Num(val))),
           other \in sort(sibling.data, Q1(key, Num(val))) :
            /\ sibling.data = cursor.data => other = data
            /\ BothChain(data, other, Op("sort", key, val))

BothLimit ==
    \E n \in 0..MaxDocs :
        BothChain(limit(cursor.data, Num(n)), limit(sibling.data, Num(n)),
                  Op("limit", NoKey, n))

BothSkip ==
    \E n \in 0..MaxDocs :
        BothChain(skip("mongolite", cursor.data, Num(n)),
                  skip("buryat", sibling.data, Num(n)), Op("skip", NoKey, n))

\* what a caller of the two stores can tell apart: the Collections, the id
\* counters, the values returned and the cursors' _data
Observed(m, id, call, data) == [master |-> m, _id |-> id, ret |-> call.ret,
                                fault |-> call.fault, data |-> data]

\* the calls go on for as long as the two stores have shown no difference
Calls ==
    \/ BothInsert
    \/ BothUpdate
    \/ BothRemove
    \/ BothFind
    \/ BothCount
    \/ BothSort
    \/ BothLimit
    \/ BothSkip

NextSiblings ==
    /\ Observed(master, _id, last, cursor.data) = sibling
    /\ Calls

SpecSiblings == InitSiblings /\ [][NextSiblings]_vars

\* C30: the two sibling implementations are observationally equivalent:
\* for every sequence of insert, update, remove, find, count and cursor
\* sort, limit and skip calls with the same arguments (inserting an empty
\* document included) both return the same values and hold Collections
\* with the same documents, the same _id values and the same id counter
\* after every step.
C30_SiblingsAgree ==
    /\ sibling.master = master
    /\ sibling._id = _id
    /\ sibling.ret = last.ret
    /\ sibling.fault = last.fault
    /\ sibling.data = cursor.data

====
